---- MODULE Spec2Model ----
(***************************************************************************)
(* Model of the reports package: the content tree (definitions.py), the    *)
(* engine registry and the HTML rendering engine (html_engine.py).         *)
(***************************************************************************)
EXTENDS Integers, Sequences, FiniteSets, TLC

VARIABLES
    kind,       \* node -> name of the node's class (type(obj).__name__)
    content,    \* node -> ordered list of children (Container.content, ChartGroup.charts)
    level,      \* node -> Section.level (0 for nodes that are no Section)
    edits,      \* number of changes the caller made to the tree after construction
    last,       \* outcome of the last operation on the tree
    file,       \* contents of the destination file of save_report
    _engines_,  \* Engine._engines_: engine name -> engine class
    heap,       \* number of engine objects constructed so far (objects 1 .. heap)
    got,        \* outcome of the last Engine.get_engine call
    chart,      \* the chart or chart group handed to the chart composition routines
    fig         \* what the last chart routine made of it

treeVars == <<kind, content, level, edits, last, file>>

regVars == <<_engines_, heap, got>>

chartVars == <<chart, fig>>

vars == <<kind, content, level, edits, last, file, _engines_, heap, got, chart, fig>>

----------------------------------------------------------------------------
(* Bounds *)

MaxNodes == 4

MaxDescNodes == 5

MaxEdits == 1

MaxDispatchNodes == 2

MaxObjects == 3

MaxSeries == 2

MaxComboSeries == 3

MaxRows == 2

MaxMembers == 3

MaxZoom == 2

MaxCallerLevel == 2

MaxColumns == 2

Nodes == 0 .. (MaxNodes - 1)

----------------------------------------------------------------------------
(* Class hierarchy of definitions.py *)

\* direct base class of every class; user-defined subclasses are the My* names
Base ==
    [ Content |-> "object", Container |-> "Content", Box |-> "Container",
      Grid |-> "Container", Section |-> "Box", Report |-> "Section",
      Table |-> "Content", Text |-> "Content", Chart |-> "Content",
      XYChart |-> "Chart", LineChart |-> "XYChart", CandlestickChart |-> "XYChart",
      ComboChart |-> "XYChart", BarChart |-> "XYChart", ChartGroup |-> "Content",
      MyReport |-> "Report", MySection |-> "Section", MyLineChart |-> "LineChart",
      MyChart |-> "XYChart", MyContent |-> "Content" ]

RECURSIVE IsInstance(_, _)
IsInstance(k, c) ==
    IF k = c THEN TRUE
    ELSE IF k = "object" THEN FALSE
    ELSE IsInstance(Base[k], c)

\* classes whose instances own an ordered list of members
HoldsMembers(k) == IsInstance(k, "Container") \/ IsInstance(k, "ChartGroup")

----------------------------------------------------------------------------
(* Generic helpers *)

Min(S) == CHOOSE x \in S : \A y \in S : x <= y

RECURSIVE SortedSeq(_)
SortedSeq(S) == IF S = {} THEN <<>> ELSE <<Min(S)>> \o SortedSeq(S \ {Min(S)})

Range(s) == { s[i] : i \in 1 .. Len(s) }

\* the trees over nodes 0..n-1 rooted at 0: node i > 0 is a member of p[i] < i,
\* the members of a node being listed in increasing order
ParentMaps(n) == { p \in [ 1 .. (n - 1) -> 0 .. (n - 2) ] : \A i \in 1 .. (n - 1) : p[i] < i }

ContentOf(p, n) ==
    [ x \in 0 .. (n - 1) |-> SortedSeq({ i \in 1 .. (n - 1) : p[i] = x }) ]

----------------------------------------------------------------------------
(* Tree utilities: Container.descendants and Report.update_levels *)

\* Container.descendants: the sequence the generator yields
RECURSIVE descendantsLoop(_, _)
descendantsLoop(todo, out) ==
    IF Len(todo) = 0 THEN out
    ELSE LET c == todo[Len(todo)]
             rest == SubSeq(todo, 1, Len(todo) - 1)
         IN  descendantsLoop(
                 IF IsInstance(kind[c], "Box") THEN rest \o content[c] ELSE rest,
                 Append(out, c))

descendants(n) == descendantsLoop(<<n>>, <<>>)

\* Report.update_levels: the level map after the walk from report r
RECURSIVE updateLoop(_, _)
updateLoop(todo, lv) ==
    IF Len(todo) = 0 THEN lv
    ELSE LET o == todo[Len(todo)][1]
             l == todo[Len(todo)][2]
             rest == SubSeq(todo, 1, Len(todo) - 1)
             isSec == IsInstance(kind[o], "Section")
             l2 == IF isSec THEN l + 1 ELSE l
             lv2 == IF isSec THEN [lv EXCEPT ![o] = l] ELSE lv
         IN  updateLoop(
                 IF IsInstance(kind[o], "Box")
                 THEN rest \o [ i \in 1 .. Len(content[o]) |-> <<content[o][i], l2>> ]
                 ELSE rest,
                 lv2)

update_levels(r) == updateLoop(<< <<r, 0>> >>, level)

----------------------------------------------------------------------------
(* Ground truth of the tree shape, used to state the claims *)

\* the members of n as the tree has them, whatever the container class
Children(n) == IF IsInstance(kind[n], "Container") THEN content[n] ELSE <<>>

RECURSIVE PreorderSeq(_, _)
Preorder(n) == <<n>> \o PreorderSeq(Children(n), 1)
PreorderSeq(s, i) ==
    IF i > Len(s) THEN <<>> ELSE Preorder(s[i]) \o PreorderSeq(s, i + 1)

Subtree(n) == Range(Preorder(n))

\* number of Section instances among the strict ancestors of n below and including r
RECURSIVE SectionDepth(_, _)
SectionDepth(r, n) ==
    IF n = r THEN 0
    ELSE LET p == CHOOSE q \in Subtree(r) : n \in Range(Children(q))
         IN  SectionDepth(r, p) + (IF IsInstance(kind[p], "Section") THEN 1 ELSE 0)

----------------------------------------------------------------------------
(* HtmlEngine: dispatch of a content object to its rendering routine *)

NoError == "none"

Event(n, h, t, rd, d) ==
    [ node |-> n, handler |-> h, template |-> t, read |-> rd, depth |-> d ]

Ok(ev) == [ ev |-> ev, err |-> NoError ]

Raise(ev, e) == [ ev |-> ev, err |-> e ]

\* obj_map with the ChartGroup entry left out
obj_map_without_chart_group ==
    [ Section |-> "_render_section", Box |-> "_render_box", Grid |-> "_render_grid",
      Table |-> "_render_table", Text |-> "_render_text" ]

\* HtmlEngine._render: obj_map, keyed by the exact class
obj_map ==
    [ Section |-> "_render_section", Box |-> "_render_box", Grid |-> "_render_grid",
      Table |-> "_render_table", Text |-> "_render_text",
      ChartGroup |-> "_render_chart_group" ]

\* HtmlEngine._render_chart: renderers, keyed by the exact class
renderers ==
    [ BarChart |-> "_render_bar_chart", LineChart |-> "_render_line_chart",
      ComboChart |-> "_render_combo_chart",
      CandlestickChart |-> "_render_candlestick_chart" ]

RECURSIVE _render(_, _, _), renderEach(_, _, _, _), chartEach(_, _, _)

\* a template (box.html, section.html, grid.html) rendering data: the members of
\* data.content are rendered in order through the render helper
template(name, h, n, rd, d, lv) ==
    LET inner == renderEach(content[n], 1,
                            IF IsInstance(kind[n], "Section") THEN d + 1 ELSE d, lv)
    IN  [ ev |-> <<Event(n, h, name, rd, d)>> \o inner.ev, err |-> inner.err ]

renderEach(s, i, d, lv) ==
    IF i > Len(s) THEN Ok(<<>>)
    ELSE LET r == _render(s[i], d, lv)
         IN  IF r.err # NoError THEN r
             ELSE LET rest == renderEach(s, i + 1, d, lv)
                  IN  [ ev |-> r.ev \o rest.ev, err |-> rest.err ]

_render_report(n, d, lv) ==
    IF lv[n] = 0
    THEN template("box", "_render_report", n, lv[n], d, lv)
    ELSE template("section", "_render_report", n, lv[n], d, lv)

\* a section handler that takes the box template
_render_section_as_box(n, rd, d, lv) == template("box", "_render_section", n, rd, d, lv)

_render_section(n, rd, d, lv) == template("section", "_render_section", n, rd, d, lv)

_render_box(n, d, lv) == template("box", "_render_box", n, -1, d, lv)

_render_grid(n, d, lv) == template("grid", "_render_grid", n, -1, d, lv)

_render_table(n, d) == Ok(<<Event(n, "_render_table", "none", -1, d)>>)

_render_text(n, d) == Ok(<<Event(n, "_render_text", "none", -1, d)>>)

_render_chart(n, d) ==
    IF kind[n] \notin DOMAIN renderers
    THEN Raise(<<>>, "Unknown chart type")
    ELSE Ok(<<Event(n, renderers[kind[n]], "none", -1, d)>>)

chartEach(s, i, d) ==
    IF i > Len(s) THEN Ok(<<>>)
    ELSE LET r == _render_chart(s[i], d)
         IN  IF r.err # NoError THEN r
             ELSE LET rest == chartEach(s, i + 1, d)
                  IN  [ ev |-> r.ev \o rest.ev, err |-> rest.err ]

_render_chart_group(n, d) ==
    LET inner == chartEach(content[n], 1, d)
    IN  [ ev |-> <<Event(n, "_render_chart_group", "none", -1, d)>> \o inner.ev,
          err |-> inner.err ]

_render(n, d, lv) ==
    LET k == kind[n]
    IN  IF IsInstance(k, "Report")
        THEN IF lv[n] = 0
             THEN _render_report(n, d, lv)
             ELSE _render_section(n, lv[n], d, lv)
        ELSE IF IsInstance(k, "Chart")
        THEN _render_chart(n, d)
        ELSE IF k \notin DOMAIN obj_map
        THEN Raise(<<>>, "Unknown content type: " \o k)
        ELSE CASE obj_map[k] = "_render_section" -> _render_section(n, -1, d, lv)
               [] obj_map[k] = "_render_box" -> _render_box(n, d, lv)
               [] obj_map[k] = "_render_grid" -> _render_grid(n, d, lv)
               [] obj_map[k] = "_render_table" -> _render_table(n, d)
               [] obj_map[k] = "_render_text" -> _render_text(n, d)
               [] obj_map[k] = "_render_chart_group" -> _render_chart_group(n, d)

\* HtmlEngine.render: the level map it leaves and the outcome of the render
render_levels(n) == IF IsInstance(kind[n], "Report") THEN update_levels(n) ELSE level

render(n) == _render(n, 0, render_levels(n))

----------------------------------------------------------------------------
(* Engine registry *)

None == "<None>"

NoGot ==
    [ op |-> "none", name |-> None, err |-> NoError, obj |-> 0, class |-> None,
      reg |-> << >>, objs |-> 0 ]

\* the registry once html_engine is imported: Engine._engines_['html'] = HtmlEngine
Loaded == [ n \in { "html" } |-> "HtmlEngine" ]

IdleRegistry == _engines_ = Loaded /\ heap = 0 /\ got = NoGot

NoChart == [ type |-> "none" ]

IdleChart == chart = NoChart /\ fig = NoChart

----------------------------------------------------------------------------
(* Operations on a content tree *)

NodeSet == DOMAIN kind

Result(op, n, r, sq) ==
    [ op |-> op, root |-> n, ev |-> r.ev, err |-> r.err, seq |-> sq, before |-> file ]

Original == "original"

NoResult ==
    [ op |-> "none", root |-> -1, ev |-> <<>>, err |-> NoError, seq |-> <<>>,
      before |-> Original ]

Truncated == ""

\* the complete markup of a render that returned
Markup == "markup"

\* Container.descendants called on container n, the generator run to its end
Descendants(n) ==
    /\ IsInstance(kind[n], "Container")
    /\ last' = Result("descendants", n, Ok(<<>>), descendants(n))
    /\ UNCHANGED <<kind, content, level, edits, file>>
    /\ UNCHANGED <<regVars, chartVars>>

\* Report.update_levels called on report r
UpdateLevels(r) ==
    /\ IsInstance(kind[r], "Report")
    /\ level' = update_levels(r)
    /\ last' = Result("update_levels", r, Ok(<<>>), <<>>)
    /\ UNCHANGED <<kind, content, edits, file>>
    /\ UNCHANGED <<regVars, chartVars>>

\* HtmlEngine().render(n)
Render(n) ==
    /\ level' = render_levels(n)
    /\ last' = Result("render", n, render(n), <<>>)
    /\ UNCHANGED <<kind, content, edits, file>>
    /\ UNCHANGED <<regVars, chartVars>>

\* Report._repr_html_ on report r: a new Section holding r's content is rendered
\* by the engine registered as 'html'; the new Section is node -1 of the events
ReprHtml(r) ==
    /\ IsInstance(kind[r], "Report")
    /\ LET inner == renderEach(content[r], 1, 1, level)
       IN  last' = Result("_repr_html_", r,
                          [ ev |-> <<Event(-1, "_render_section", "section", -1, 0)>>
                                     \o inner.ev,
                            err |-> inner.err ],
                          <<>>)
    /\ UNCHANGED <<kind, content, level, edits, file>>
    /\ UNCHANGED <<regVars, chartVars>>

\* save_report(n, file): the file is opened for writing, which empties it, then
\* the report is rendered and the markup written
save_report(n) ==
    LET r == render(n)
    IN  IF r.err = NoError THEN Markup ELSE Truncated

SaveReport(n) ==
    /\ level' = render_levels(n)
    /\ file' = save_report(n)
    /\ last' = Result("save_report", n, render(n), <<>>)
    /\ UNCHANGED <<kind, content, edits>>
    /\ UNCHANGED <<regVars, chartVars>>

\* HtmlEngine._render(n), as the templates call it through the render helper
Dispatch(n) ==
    /\ last' = Result("_render", n, _render(n, 0, level), <<>>)
    /\ UNCHANGED <<kind, content, level, edits, file>>
    /\ UNCHANGED <<regVars, chartVars>>

\* the caller assigns Section.level
SetLevel(n, l) ==
    /\ edits < MaxEdits
    /\ IsInstance(kind[n], "Section")
    /\ level[n] # l
    /\ level' = [level EXCEPT ![n] = l]
    /\ edits' = edits + 1
    /\ last' = NoResult
    /\ UNCHANGED <<kind, content, file>>
    /\ UNCHANGED <<regVars, chartVars>>

\* the caller moves member c of a container to the end of container p
Move(c, p) ==
    /\ edits < MaxEdits
    /\ IsInstance(kind[p], "Container")
    /\ p \notin Subtree(c)
    /\ \E q \in NodeSet :
          /\ IsInstance(kind[q], "Container")
          /\ c \in Range(content[q])
          /\ q # p
          /\ content' = [content EXCEPT
                ![q] = SelectSeq(content[q], LAMBDA x : x # c),
                ![p] = Append(content[p], c)]
    /\ edits' = edits + 1
    /\ last' = NoResult
    /\ UNCHANGED <<kind, level, file>>
    /\ UNCHANGED <<regVars, chartVars>>

----------------------------------------------------------------------------
(* Reports built from reports, sections, boxes, grids and a user-defined content *)

TreeKinds == { "Report", "Section", "Box", "Grid", "MyContent" }

WellFormed(kd, p, n) == \A i \in 1 .. (n - 1) : HoldsMembers(kd[p[i]])

Init ==
    /\ \E p \in ParentMaps(MaxNodes) : \E kd \in [ Nodes -> TreeKinds ] :
          /\ WellFormed(kd, p, MaxNodes)
          /\ kd[0] = "Report"
          /\ kind = kd
          /\ content = ContentOf(p, MaxNodes)
    /\ level = [ n \in Nodes |-> 0 ]
    /\ edits = 0
    /\ last = NoResult
    /\ file = Original
    /\ IdleRegistry
    /\ IdleChart

Next ==
    \/ \E r \in NodeSet : UpdateLevels(r)
    \/ \E n \in NodeSet : Render(n)
    \/ \E r \in NodeSet : ReprHtml(r)
    \/ \E n \in NodeSet : SaveReport(n)
    \/ \E n \in NodeSet : \E l \in 0 .. MaxCallerLevel : SetLevel(n, l)
    \/ \E c \in NodeSet : \E p \in NodeSet : Move(c, p)

Spec == Init /\ [][Next]_vars

----------------------------------------------------------------------------
(* Containers of boxes, grids, sections and tables, for Container.descendants *)

DescNodes == 0 .. (MaxDescNodes - 1)

DescKinds == { "Box", "Grid", "Section", "Table" }

InitDesc ==
    /\ \E p \in ParentMaps(MaxDescNodes) : \E kd \in [ DescNodes -> DescKinds ] :
          /\ WellFormed(kd, p, MaxDescNodes)
          /\ kind = kd
          /\ content = ContentOf(p, MaxDescNodes)
    /\ level = [ n \in DescNodes |-> 0 ]
    /\ edits = 0
    /\ last = NoResult
    /\ file = Original
    /\ IdleRegistry
    /\ IdleChart

NextDesc == \E n \in NodeSet : Descendants(n)

SpecDesc == InitDesc /\ [][NextDesc]_vars

----------------------------------------------------------------------------
(* Claims about the tree utilities *)

\* C1: after Report.update_levels on a report, every Section of the tree below it
\* (reached through Box, Grid and Section containers alike) has as its level the
\* number of Section ancestors it has in that tree, the report itself having 0.
C1_LevelIsSectionDepth ==
    last.op = "update_levels" =>
        \A n \in Subtree(last.root) :
            IsInstance(kind[n], "Section") => level[n] = SectionDepth(last.root, n)

\* C2: Container.descendants yields the container first and then every node
\* reachable from it exactly once, in depth-first pre-order, the members of each
\* container (Box or Grid) in insertion order.
C2_DescendantsIsPreorder ==
    last.op = "descendants" => last.seq = Preorder(last.root)

\* C3: in every render, through HtmlEngine.render, Report._repr_html_ and
\* save_report, every level a rendering routine reads is the number of Section
\* ancestors the node has in the rendered tree.
C3_ReadLevelIsDepth ==
    last.op \in { "render", "_repr_html_", "save_report" } =>
        \A i \in 1 .. Len(last.ev) :
            last.ev[i].read # -1 => last.ev[i].read = last.ev[i].depth

\* C10: save_report either leaves the complete markup in the destination, or,
\* when rendering raises, leaves the destination as it was before the call.
C10_SaveIsAllOrNothing ==
    last.op = "save_report" =>
        IF last.err = NoError THEN file = Markup ELSE file = last.before

\* the level of a rendered node; the Section that _repr_html_ builds (node -1) has
\* the level its constructor sets
NodeLevel(n) == IF n = -1 THEN 0 ELSE level[n]

\* C11: whenever a Report or a Section is rendered, the box template is used
\* exactly when the node's level is 0 and the section template exactly when its
\* level is at least 1, for plain Sections as for Reports, wherever they sit.
C11_TemplateByLevel ==
    last.op \in { "render", "_repr_html_", "save_report" } =>
        \A i \in 1 .. Len(last.ev) :
            last.ev[i].handler \in { "_render_report", "_render_section" } =>
                /\ last.ev[i].template = "box" <=> NodeLevel(last.ev[i].node) = 0
                /\ last.ev[i].template = "section" <=> NodeLevel(last.ev[i].node) >= 1

\* C11 amended: a Report (or an instance of a subclass) is rendered with the box
\* template exactly when its level is 0 and with the section template otherwise;
\* a Section that is no Report is rendered with the section template whatever its
\* level, also as the root of the render.
C11_TemplateByClassAndLevel ==
    last.op \in { "render", "_repr_html_", "save_report" } =>
        \A i \in 1 .. Len(last.ev) :
            last.ev[i].handler \in { "_render_report", "_render_section" } =>
                LET n == last.ev[i].node
                IN  IF n # -1 /\ IsInstance(kind[n], "Report")
                    THEN /\ last.ev[i].template = "box" <=> level[n] = 0
                         /\ last.ev[i].template = "section" <=> level[n] # 0
                    ELSE last.ev[i].template = "section"

\* a render of a report that holds a section and, below it, another report: the
\* root took the box template, the nested report and the section the section one
C11_Witness ==
    /\ last.op = "render"
    /\ last.err = NoError
    /\ \E i, j, k \in 1 .. Len(last.ev) :
          /\ last.ev[i].node = last.root
          /\ last.ev[i].template = "box"
          /\ kind[last.ev[j].node] = "Report"
          /\ level[last.ev[j].node] >= 1
          /\ last.ev[j].template = "section"
          /\ kind[last.ev[k].node] = "Section"
          /\ last.ev[k].template = "section"

----------------------------------------------------------------------------
(* Dispatch of one content object of any class, with or without a member *)

DispatchNodes == 0 .. (MaxDispatchNodes - 1)

AllKinds == DOMAIN Base

InitDispatch ==
    /\ \E p \in ParentMaps(MaxDispatchNodes) : \E kd \in [ DispatchNodes -> AllKinds ] :
          /\ WellFormed(kd, p, MaxDispatchNodes)
          /\ kind = kd
          /\ content = ContentOf(p, MaxDispatchNodes)
    /\ level = [ n \in DispatchNodes |-> 0 ]
    /\ edits = 0
    /\ last = NoResult
    /\ file = Original
    /\ IdleRegistry
    /\ IdleChart

NextDispatch ==
    \/ \E n \in NodeSet : Dispatch(n)
    \/ \E n \in NodeSet : \E l \in 0 .. MaxCallerLevel : SetLevel(n, l)

SpecDispatch == InitDispatch /\ [][NextDispatch]_vars

\* the handler of each variant that has one of its own
OwnHandler ==
    [ Report |-> "_render_report", Section |-> "_render_section", Box |-> "_render_box",
      Grid |-> "_render_grid", Table |-> "_render_table",
      LineChart |-> "_render_line_chart", BarChart |-> "_render_bar_chart",
      ComboChart |-> "_render_combo_chart",
      CandlestickChart |-> "_render_candlestick_chart",
      ChartGroup |-> "_render_chart_group", Text |-> "_render_text" ]

\* the variants with a handler: the ten the claim names, and Text
ClaimedVariants == DOMAIN OwnHandler

\* the dispatched object reached handler h
Reached(h) ==
    /\ Len(last.ev) >= 1
    /\ last.ev[1].node = last.root
    /\ last.ev[1].handler = h

FailedWith(e) == last.err = e /\ last.ev = <<>>

\* C4 as stated: each variant with a handler reaches its own handler (a nested
\* Report may reach the section handler), and every other content value, a
\* user-defined subclass of a mapped variant included, fails with the
\* unknown-content-type error naming its class, without output.
C4_ClosedWorldByExactVariant ==
    last.op = "_render" =>
        LET k == kind[last.root]
        IN  IF k \in ClaimedVariants
            THEN \/ Reached(OwnHandler[k])
                 \/ k = "Report" /\ Reached("_render_section")
            ELSE FailedWith("Unknown content type: " \o k)

\* C4 amended: a Report or an instance of a subclass of Report reaches the report
\* handler when its level is 0 and the section handler otherwise; an object whose
\* exact class is Section, Box, Grid, Table, Text or ChartGroup, or one of the four
\* chart classes, reaches its own handler; any other Chart instance fails with
\* "Unknown chart type"; every other value fails with "Unknown content type: "
\* followed by its class; a failed dispatch produces no output.
C4_Dispatch ==
    last.op = "_render" =>
        LET k == kind[last.root]
        IN  IF IsInstance(k, "Report")
            THEN Reached(IF level[last.root] = 0
                         THEN "_render_report" ELSE "_render_section")
            ELSE IF IsInstance(k, "Chart")
            THEN IF k \in { "LineChart", "BarChart", "ComboChart", "CandlestickChart" }
                 THEN Reached(OwnHandler[k])
                 ELSE FailedWith("Unknown chart type")
            ELSE IF k \in { "Section", "Box", "Grid", "Table", "Text", "ChartGroup" }
            THEN Reached(OwnHandler[k])
            ELSE FailedWith("Unknown content type: " \o k)

\* a user-defined subclass of Section was dispatched and refused by name
C4_Witness ==
    /\ last.op = "_render"
    /\ kind[last.root] = "MySection"
    /\ FailedWith("Unknown content type: MySection")

----------------------------------------------------------------------------
(* Engine registry: registration and lookup *)

EngineNames == { "html", "pdf", "nonexistent" }

EngineClasses == { "HtmlEngine", "MyEngine" }

\* a lookup that hands out one shared engine object instead of constructing one
get_engine_shared(name) ==
    IF name \in DOMAIN _engines_
    THEN [ err |-> NoError, obj |-> 1, class |-> _engines_[name],
           heap |-> IF heap = 0 THEN 1 ELSE heap ]
    ELSE [ err |-> "KeyError", obj |-> 0, class |-> None, heap |-> heap ]

\* Engine.get_engine(name): Engine._engines_[name]()
get_engine(name) ==
    IF name \in DOMAIN _engines_
    THEN [ err |-> NoError, obj |-> heap + 1, class |-> _engines_[name],
           heap |-> heap + 1 ]
    ELSE [ err |-> "KeyError", obj |-> 0, class |-> None, heap |-> heap ]

GetEngine(name) ==
    /\ heap < MaxObjects
    /\ LET r == get_engine(name)
       IN  /\ heap' = r.heap
           /\ got' = [ op |-> "get_engine", name |-> name, err |-> r.err,
                       obj |-> r.obj, class |-> r.class,
                       reg |-> _engines_, objs |-> heap ]
    /\ UNCHANGED _engines_
    /\ UNCHANGED <<treeVars, chartVars>>

\* Engine._engines_[name] = class, as html_engine does for 'html' when it is loaded
Register(name, class) ==
    /\ _engines_' = [ n \in DOMAIN _engines_ \cup { name } |->
                        IF n = name THEN class ELSE _engines_[n] ]
    /\ _engines_' # _engines_
    /\ got' = NoGot
    /\ UNCHANGED heap
    /\ UNCHANGED <<treeVars, chartVars>>

IdleTree ==
    /\ kind = << >>
    /\ content = << >>
    /\ level = << >>
    /\ edits = 0
    /\ last = NoResult
    /\ file = Original

\* definitions.py alone leaves the registry empty; html_engine adds 'html'
InitRegistry ==
    /\ IdleTree
    /\ IdleChart
    /\ _engines_ \in { << >>, Loaded }
    /\ heap = 0
    /\ got = NoGot

NextRegistry ==
    \/ \E name \in EngineNames : GetEngine(name)
    \/ \E name \in EngineNames : \E class \in EngineClasses : Register(name, class)

SpecRegistry == InitRegistry /\ [][NextRegistry]_vars

\* C5: Engine.get_engine(name) returns a newly constructed instance of the
\* registered class when name is registered and fails when it is not; the lookup
\* leaves the registry as it was.
C5_Lookup ==
    got.op = "get_engine" =>
        /\ _engines_ = got.reg
        /\ IF got.name \in DOMAIN got.reg
           THEN /\ got.err = NoError
                /\ got.obj \notin 0 .. got.objs
                /\ got.obj \in 1 .. heap
                /\ got.class = got.reg[got.name]
           ELSE /\ got.err = "KeyError"
                /\ got.obj = 0
                /\ heap = got.objs

\* a second successful lookup after an earlier one, and a failed lookup
C5_Witness ==
    /\ got.op = "get_engine"
    /\ got.name = "html"
    /\ got.err = NoError
    /\ got.objs >= 1

C5_WitnessUnknown ==
    /\ got.op = "get_engine"
    /\ got.name = "nonexistent"
    /\ got.err = "KeyError"

----------------------------------------------------------------------------
(* Chart composition: data series, palette, figures *)

\* bokeh.palettes.Category10_10
palette ==
    << "#1f77b4", "#ff7f0e", "#2ca02c", "#d62728", "#9467bd",
       "#8c564b", "#e377c2", "#7f7f7f", "#bcbd22", "#17becf" >>

\* next(colors) of itertools.cycle(palette) after cursor earlier draws
next_color(cursor) == palette[(cursor % Len(palette)) + 1]

\* DataSeries: x runs over 1 .. len(y) unless given
DataSeries(title, xs, ys, color, line, markers) ==
    [ title |-> title, x |-> xs, y |-> ys, color |-> color,
      line |-> line, markers |-> markers ]

Glyph(type, i, color, label) ==
    [ type |-> type, series |-> i, color |-> color, label |-> label ]

\* the legend a new figure has once its glyphs are drawn: the backend adds one
\* when a glyph is given a legend label; it is visible, at the default location
Legend(glyphs) ==
    [ exists |-> \E i \in 1 .. Len(glyphs) : glyphs[i].label # None,
      visible |-> TRUE, location |-> "top_right" ]

Figure(of, glyphs, legend) ==
    [ type |-> "figure", of |-> of, err |-> NoError, glyphs |-> glyphs,
      legend |-> legend, x_range |-> 1 ]

Failed(of, e) ==
    [ type |-> "figure", of |-> of, err |-> e, glyphs |-> <<>>,
      legend |-> Legend(<<>>), x_range |-> 0 ]

\* HtmlEngine._render_line_chart, the loop over obj.series: the glyphs drawn, or
\* the assertion that failed; debug is __debug__ (false under python -O, which
\* drops assert statements)
RECURSIVE line_series(_, _, _, _, _)
line_series(ss, i, cursor, glyphs, debug) ==
    IF i > Len(ss) THEN [ err |-> NoError, glyphs |-> glyphs ]
    ELSE LET s == ss[i]
             color == IF s.color = None THEN next_color(cursor) ELSE s.color
             extra == IF s.title # None /\ s.title # "" THEN s.title ELSE None
         IN  IF debug /\ ~(s.line \/ s.markers)
             THEN [ err |-> "AssertionError", glyphs |-> glyphs ]
             ELSE line_series(ss, i + 1,
                      IF s.color = None THEN cursor + 1 ELSE cursor,
                      glyphs
                        \o (IF s.line THEN <<Glyph("line", i, color, extra)>> ELSE <<>>)
                        \o (IF s.markers
                            THEN <<Glyph("scatter", i, color,
                                         IF s.line THEN None ELSE extra)>>
                            ELSE <<>>),
                      debug)

\* fig.legend.location = where: it reaches the legends the figure has
set_location(legend, where) ==
    IF legend.exists THEN [ legend EXCEPT !.location = where ] ELSE legend

\* fig.legend[0].visible = False
hide(legend) == [ legend EXCEPT !.visible = FALSE ]

\* the legend policy placing the legend bottom-right also when the curve is flat
line_legend_flat(ss, legend) ==
    IF Len(ss) <= 1 /\ legend.exists
    THEN hide(legend)
    ELSE IF \E i \in 1 .. Len(ss) : ss[i].title # None
    THEN IF Len(ss) > 0 /\ Len(ss[1].y) > 0 /\ ss[1].y[Len(ss[1].y)] >= ss[1].y[1]
         THEN set_location(legend, "bottom_right")
         ELSE legend
    ELSE legend

\* HtmlEngine._render_line_chart, the legend policy
line_legend(ss, legend) ==
    IF Len(ss) <= 1 /\ legend.exists
    THEN hide(legend)
    ELSE IF \E i \in 1 .. Len(ss) : ss[i].title # None
    THEN IF Len(ss) > 0 /\ Len(ss[1].y) > 0 /\ ss[1].y[Len(ss[1].y)] > ss[1].y[1]
         THEN set_location(legend, "bottom_right")
         ELSE legend
    ELSE legend

\* HtmlEngine._render_line_chart
_render_line_chart(obj) ==
    LET drawn == line_series(obj.series, 1, 0, <<>>, obj.debug)
    IN  IF drawn.err # NoError THEN Failed("LineChart", drawn.err)
        ELSE Figure("LineChart", drawn.glyphs,
                    line_legend(obj.series, Legend(drawn.glyphs)))

\* what a glyph call of the plot backend makes of legend_label=title: a label,
\* no label, or (none_label = "ValueError") a refusal of a label that is no string
label_of(title, none_label) ==
    IF title # None THEN [ err |-> NoError, label |-> title ]
    ELSE IF none_label = "ValueError" THEN [ err |-> "ValueError", label |-> None ]
    ELSE [ err |-> NoError, label |-> None ]

\* HtmlEngine._render_bar_chart, the loop over obj.series
RECURSIVE bar_series(_, _, _, _, _)
bar_series(ss, idx, cursor, glyphs, none_label) ==
    IF idx > Len(ss) THEN [ err |-> NoError, glyphs |-> glyphs ]
    ELSE LET s == ss[idx]
             lab == label_of(s.title, none_label)
             color == IF s.color # None THEN s.color ELSE next_color(cursor)
         IN  IF lab.err # NoError THEN [ err |-> lab.err, glyphs |-> glyphs ]
             ELSE bar_series(ss, idx + 1,
                      IF s.color # None THEN cursor ELSE cursor + 1,
                      Append(glyphs, Glyph("vbar", idx, color, lab.label)),
                      none_label)

\* HtmlEngine._render_bar_chart
_render_bar_chart(obj) ==
    LET drawn == bar_series(obj.series, 1, 0, <<>>, obj.none_label)
        legend == Legend(drawn.glyphs)
    IN  IF drawn.err # NoError THEN Failed("BarChart", drawn.err)
        ELSE IF Len(obj.series) <= 1
        THEN IF legend.exists
             THEN Figure("BarChart", drawn.glyphs, hide(legend))
             ELSE Failed("BarChart", "IndexError")
        ELSE Figure("BarChart", drawn.glyphs, legend)

\* str(v) of an x value
str(v) == v.s

\* HtmlEngine._render_combo_chart: the categorical x range
\* the scan of one series that appends every value, seen before or not
RECURSIVE x_range_values_repeating(_, _, _)
x_range_values_repeating(xs, i, x_range) ==
    IF i > Len(xs) THEN x_range
    ELSE x_range_values_repeating(xs, i + 1, Append(x_range, str(xs[i])))

RECURSIVE x_range_values(_, _, _)
x_range_values(xs, i, x_range) ==
    IF i > Len(xs) THEN x_range
    ELSE x_range_values(xs, i + 1,
             IF \E j \in 1 .. Len(x_range) : x_range[j] = str(xs[i])
             THEN x_range ELSE Append(x_range, str(xs[i])))

RECURSIVE x_range_series(_, _, _)
x_range_series(ss, i, x_range) ==
    IF i > Len(ss) THEN x_range
    ELSE x_range_series(ss, i + 1, x_range_values(ss[i].x, 1, x_range))

\* HtmlEngine._render_combo_chart, the loop over obj.lines
RECURSIVE combo_lines(_, _, _, _, _)
combo_lines(ss, i, cursor, glyphs, none_label) ==
    IF i > Len(ss) THEN [ err |-> NoError, glyphs |-> glyphs ]
    ELSE LET s == ss[i]
             lab == label_of(s.title, none_label)
             color == next_color(cursor)
         IN  IF lab.err # NoError THEN [ err |-> lab.err, glyphs |-> glyphs ]
             ELSE combo_lines(ss, i + 1, cursor + 1,
                      glyphs \o << Glyph("line", i, color, lab.label),
                                   Glyph("scatter", i, color, None) >>,
                      none_label)

\* the palette cursor after the bars: one draw for each bar without a color
ColorDraws(ss) == Cardinality({ i \in 1 .. Len(ss) : ss[i].color = None })

\* HtmlEngine._render_combo_chart
_render_combo_chart(obj) ==
    LET x_range == x_range_series(obj.lines \o obj.bars, 1, <<>>)
        bars == bar_series(obj.bars, 1, 0, <<>>, obj.none_label)
        lines == combo_lines(obj.lines, 1, ColorDraws(obj.bars), bars.glyphs,
                             obj.none_label)
        legend == Legend(lines.glyphs)
    IN  IF bars.err # NoError THEN Failed("ComboChart", bars.err)
        ELSE IF lines.err # NoError THEN Failed("ComboChart", lines.err)
        ELSE IF Len(obj.lines) <= 1 /\ Len(obj.bars) <= 1
        THEN IF legend.exists
             THEN Figure("ComboChart", lines.glyphs, hide(legend))
                    @@ [ x_domain |-> x_range ]
             ELSE Failed("ComboChart", "IndexError")
        ELSE Figure("ComboChart", lines.glyphs, legend) @@ [ x_domain |-> x_range ]

----------------------------------------------------------------------------
(* Line charts *)

Titles == { None, "", "A" }

Colors == { None, "red" }

\* y values of the first series: none, rising, flat, falling
Trends == { <<>>, <<1, 2>>, <<1, 1>>, <<2, 1>> }

Indices(ys) == [ i \in 1 .. Len(ys) |-> i ]

SeriesOver(ysSet) ==
    { DataSeries(t, Indices(ys), ys, c, l, m) :
        t \in Titles, ys \in ysSet, c \in Colors, l \in BOOLEAN, m \in BOOLEAN }

\* series lists of k series; the series after the first are flat
SeriesLists(k) ==
    IF k = 0 THEN { <<>> }
    ELSE { <<f>> \o r : f \in SeriesOver(Trends),
                        r \in [ 1 .. (k - 1) -> SeriesOver({ <<1, 1>> }) ] }

LineChart(ss, debug) == [ type |-> "LineChart", series |-> ss, debug |-> debug ]

----------------------------------------------------------------------------
(* Bar charts and combo charts *)

\* how the plot backend takes legend_label=None
NoneLabels == { "ValueError", "ignored" }

BarSeriesLists(k) == [ 1 .. k -> SeriesOver({ <<1, 1>> }) ]

BarChart(ss, nl) == [ type |-> "BarChart", series |-> ss, none_label |-> nl ]

\* x values: the numbers 1 and 2 and the string '1'
Int1 == [ t |-> "int", s |-> "1" ]

Int2 == [ t |-> "int", s |-> "2" ]

Str1 == [ t |-> "str", s |-> "1" ]

ComboXs == { <<>>, <<Int1, Int2>>, <<Int2, Int1>>, <<Str1, Int2>>, <<Int1, Int1>> }

Ones(xs) == [ i \in 1 .. Len(xs) |-> 1 ]

\* titled series over every x sequence and color, one series that draws neither
\* line nor markers, one without a title
ComboSeries ==
    { DataSeries("A", xs, Ones(xs), c, TRUE, FALSE) : xs \in ComboXs, c \in Colors }
    \cup { DataSeries("A", <<Int1>>, <<1>>, None, FALSE, FALSE),
           DataSeries(None, <<Int1>>, <<1>>, None, TRUE, FALSE) }

ComboChart(bars, lines, nl) ==
    [ type |-> "ComboChart", bars |-> bars, lines |-> lines, none_label |-> nl ]

IdleRest == IdleTree /\ IdleRegistry

InitChart ==
    /\ IdleRest
    /\ \/ \E k \in 0 .. MaxSeries : \E ss \in SeriesLists(k) : \E d \in BOOLEAN :
             chart = LineChart(ss, d)
       \/ \E k \in 0 .. MaxSeries : \E ss \in BarSeriesLists(k) : \E nl \in NoneLabels :
             chart = BarChart(ss, nl)
       \/ \E nb \in 0 .. MaxComboSeries : \E nl \in 0 .. (MaxComboSeries - nb) :
             \E b \in [ 1 .. nb -> ComboSeries ] : \E l \in [ 1 .. nl -> ComboSeries ] :
                \E n \in NoneLabels : chart = ComboChart(b, l, n)
    /\ fig = NoChart

RenderLineChart ==
    /\ chart.type = "LineChart"
    /\ fig = NoChart
    /\ fig' = _render_line_chart(chart)
    /\ UNCHANGED chart
    /\ UNCHANGED <<treeVars, regVars>>

RenderBarChart ==
    /\ chart.type = "BarChart"
    /\ fig = NoChart
    /\ fig' = _render_bar_chart(chart)
    /\ UNCHANGED chart
    /\ UNCHANGED <<treeVars, regVars>>

RenderComboChart ==
    /\ chart.type = "ComboChart"
    /\ fig = NoChart
    /\ fig' = _render_combo_chart(chart)
    /\ UNCHANGED chart
    /\ UNCHANGED <<treeVars, regVars>>

NextChart ==
    \/ RenderLineChart
    \/ RenderBarChart
    \/ RenderComboChart

SpecChart == InitChart /\ [][NextChart]_vars

\* the DataSeries invariant: every series draws a line or markers
ValidSeries(ss) == \A i \in 1 .. Len(ss) : ss[i].line \/ ss[i].markers

\* every DataSeries the chart draws
AllSeries(c) == IF c.type = "ComboChart" THEN c.bars \o c.lines ELSE c.series

\* the interpreter runs assert statements (it is not started with -O)
AssertsOn(c) == c.type = "LineChart" => c.debug

\* C6: rendering a LineChart, BarChart or ComboChart that holds a DataSeries with
\* line=False and markers=False raises and yields no figure; stated for an
\* interpreter that runs assert statements, and met by any error raised.
C6_InvalidSeriesRaises ==
    (fig.type = "figure" /\ AssertsOn(chart) /\ ~ValidSeries(AllSeries(chart))) =>
        fig.err # NoError

Rendered(t) == fig.type = "figure" /\ fig.of = t

LegendShown == fig.legend.exists /\ fig.legend.visible

Rising(s) == Len(s.y) > 0 /\ s.y[Len(s.y)] > s.y[1]

\* C7 as stated: a LineChart with at most one titled series has no visible
\* legend; any other has a visible one, bottom-right exactly when the first
\* series' last y-value exceeds its first.
C7_LegendByTitledSeries ==
    (Rendered("LineChart") /\ fig.err = NoError /\ ValidSeries(chart.series)) =>
        IF Cardinality({ i \in 1 .. Len(chart.series) :
                            chart.series[i].title \notin { None, "" } }) <= 1
        THEN ~LegendShown
        ELSE /\ LegendShown
             /\ (fig.legend.location = "bottom_right") <=> Rising(chart.series[1])

\* a series that has a title and draws a line or markers
TitledAndDrawn(s) == s.title \notin { None, "" } /\ (s.line \/ s.markers)

\* C7 amended: a rendered LineChart with at most one series, or with no titled
\* series that is drawn, has no visible legend; one with two or more series of
\* which at least one is titled and drawn has a visible legend, bottom-right
\* exactly when the first series' last y-value exceeds its first and at the
\* default location otherwise.
C7_LegendBySeriesCount ==
    (Rendered("LineChart") /\ fig.err = NoError) =>
        IF \/ Len(chart.series) <= 1
           \/ \A i \in 1 .. Len(chart.series) : ~TitledAndDrawn(chart.series[i])
        THEN ~LegendShown
        ELSE /\ LegendShown
             /\ IF Rising(chart.series[1])
                THEN fig.legend.location = "bottom_right"
                ELSE fig.legend.location = "top_right"

\* two titled series, the first rising: the legend is shown bottom-right
C7_Witness ==
    /\ Rendered("LineChart")
    /\ fig.err = NoError
    /\ Len(chart.series) = 2
    /\ chart.series[1].title = "A"
    /\ chart.series[2].title = "A"
    /\ Rising(chart.series[1])
    /\ LegendShown
    /\ fig.legend.location = "bottom_right"

\* the series of a chart in the order they are drawn
DrawOrder(c) == IF c.type = "ComboChart" THEN c.bars \o c.lines ELSE c.series

\* the place in the draw order of the series a glyph belongs to
Position(c, g) ==
    IF c.type = "ComboChart" /\ g.type # "vbar" THEN Len(c.bars) + g.series
    ELSE g.series

\* the number of series before the i-th that have no color of their own
Uncolored(ss, i) == Cardinality({ j \in 1 .. (i - 1) : ss[j].color = None })

\* the color the palette rule gives the i-th series
ClaimedColor(ss, i) ==
    IF ss[i].color # None THEN ss[i].color
    ELSE palette[(Uncolored(ss, i) % Len(palette)) + 1]

\* C12: in one render of a LineChart, BarChart or ComboChart a series with a
\* color of its own is drawn in that color and takes no palette slot, and the
\* i-th series without one, in declaration order, is drawn in palette entry
\* i mod the palette size, the cursor starting anew in every render.
C12_PaletteCursor ==
    (fig.type = "figure" /\ fig.err = NoError
        /\ fig.of \in { "LineChart", "BarChart", "ComboChart" }) =>
        \A k \in 1 .. Len(fig.glyphs) :
            fig.glyphs[k].color = ClaimedColor(DrawOrder(chart), Position(chart, fig.glyphs[k]))

\* the x values of a list of series, one after the other, as category names
RECURSIVE Categories(_, _)
Categories(ss, i) ==
    IF i > Len(ss) THEN <<>>
    ELSE [ j \in 1 .. Len(ss[i].x) |-> str(ss[i].x[j]) ] \o Categories(ss, i + 1)

\* the place where v appears first in sequence q
FirstAt(v, q) == Min({ j \in 1 .. Len(q) : q[j] = v })

\* C13: the categorical x domain of a rendered ComboChart is the union of the x
\* values of all its series without duplicates, in the order of first appearance
\* when the line series are scanned first and the bar series second; every x
\* value of every series is in it exactly once.
C13_ComboDomain ==
    (fig.type = "figure" /\ fig.of = "ComboChart" /\ fig.err = NoError) =>
        LET scanned == Categories(chart.lines, 1) \o Categories(chart.bars, 1)
            domain == fig.x_domain
        IN  /\ Range(domain) = Range(scanned)
            /\ \A i, j \in 1 .. Len(domain) : i # j => domain[i] # domain[j]
            /\ \A i, j \in 1 .. Len(domain) :
                  i < j => FirstAt(domain[i], scanned) < FirstAt(domain[j], scanned)

\* a line series over 2, 1 and a bar series over 1, 2: the domain is 2, 1
C13_Witness ==
    /\ fig.type = "figure"
    /\ fig.of = "ComboChart"
    /\ fig.err = NoError
    /\ Len(chart.lines) = 1
    /\ Len(chart.bars) = 1
    /\ chart.lines[1].x = <<Int2, Int1>>
    /\ chart.bars[1].x = <<Int1, Int2>>
    /\ fig.x_domain = <<"2", "1">>

\* C15: rendering a LineChart or a BarChart with no series, or a ComboChart with
\* no bars and no lines, completes without raising and yields a chart with no
\* drawn series; the legend suppression does not fail for want of a legend.
C15_EmptyChartRenders ==
    (fig.type = "figure" /\ fig.of \in { "LineChart", "BarChart", "ComboChart" }
        /\ DrawOrder(chart) = <<>>) =>
        fig.err = NoError /\ fig.glyphs = <<>>

----------------------------------------------------------------------------
(* Candlestick charts *)

\* the comparison coloring a row red also when close equals open
is_green_strict(row) == row.close > row.open

\* data['close'] >= data['open'], row by row
is_green(row) == row.close >= row.open

\* numpy.maximum and numpy.minimum, element by element
maximum(a, b) == IF a >= b THEN a ELSE b

minimum(a, b) == IF a <= b THEN a ELSE b

candle_color(row) == IF is_green(row) THEN "#00AA00" ELSE "#FF0000"

SeqMax(f) == CHOOSE v \in Range(f) : \A w \in Range(f) : w <= v

SeqMin(f) == CHOOSE v \in Range(f) : \A w \in Range(f) : v <= w

\* HtmlEngine._render_candlestick_chart: rows are drawn at numpy.arange(len(rows));
\* the y range is kept in hundredths
_render_candlestick_chart(obj) ==
    LET data == obj.data
        n == Len(data)
        index == [ i \in 1 .. n |-> i - 1 ]
        colors == [ i \in 1 .. n |-> candle_color(data[i]) ]
        with_volume == obj.has_volume /\ \E i \in 1 .. n : data[i].volume # 0
        default_top == SeqMax([ i \in 1 .. n |-> data[i].high ])
        default_bot == SeqMin([ i \in 1 .. n |-> data[i].low ])
    IN  [ type |-> "figure", of |-> "CandlestickChart", err |-> NoError,
          segments |-> [ i \in 1 .. n |->
              [ x0 |-> index[i], y0 |-> data[i].high,
                x1 |-> index[i], y1 |-> data[i].low, color |-> "black" ] ],
          bars |-> [ i \in 1 .. n |->
              [ x |-> index[i],
                top |-> maximum(data[i].open, data[i].close),
                bottom |-> minimum(data[i].open, data[i].close),
                color |-> colors[i], time |-> obj.labels[i] ] ],
          tick_labels |-> obj.labels,
          y_range |-> IF with_volume
                      THEN << 105 * default_bot - 5 * default_top,
                              105 * default_top - 5 * default_bot >>
                      ELSE <<>>,
          volume_bars |-> IF with_volume
                          THEN [ i \in 1 .. n |->
                                   [ x |-> index[i], bottom |-> 0,
                                     top |-> data[i].volume, color |-> colors[i] ] ]
                          ELSE <<>>,
          legend |-> Legend(<<>>),
          x_range |-> 1 ]

Row(o, h, l, c, v) == [ open |-> o, high |-> h, low |-> l, close |-> c, volume |-> v ]

Rows ==
    { Row(o, h, l, c, v) : o \in 1 .. 2, h \in 2 .. 3, l \in 0 .. 1, c \in 1 .. 2,
                           v \in { 0, 4 } }

\* the index of the data frame: time labels that are no dense positions
TimeLabels(n) == [ i \in 1 .. n |-> 10 * i + 5 ]

CandlestickChart(data, has_volume) ==
    [ type |-> "CandlestickChart", data |-> data, has_volume |-> has_volume,
      labels |-> TimeLabels(Len(data)) ]

InitCandle ==
    /\ IdleRest
    /\ \E n \in 1 .. MaxRows : \E data \in [ 1 .. n -> Rows ] : \E hv \in BOOLEAN :
          chart = CandlestickChart(data, hv)
    /\ fig = NoChart

RenderCandlestickChart ==
    /\ chart.type = "CandlestickChart"
    /\ fig = NoChart
    /\ fig' = _render_candlestick_chart(chart)
    /\ UNCHANGED chart
    /\ UNCHANGED <<treeVars, regVars>>

NextCandle == RenderCandlestickChart

SpecCandle == InitCandle /\ [][NextCandle]_vars

\* C8: row i (counted from 0) of a CandlestickChart is drawn at x position i, its
\* body from the lesser to the greater of open and close, green exactly when
\* close >= open and red otherwise, its wick from low to high; its volume bar,
\* when volume bars are drawn, has the color of the body.
C8_Candles ==
    Rendered("CandlestickChart") =>
        /\ fig.err = NoError
        /\ Len(fig.bars) = Len(chart.data)
        /\ Len(fig.segments) = Len(chart.data)
        /\ Len(fig.volume_bars) \in { 0, Len(chart.data) }
        /\ \A i \in 1 .. Len(chart.data) :
              LET row == chart.data[i]
                  bar == fig.bars[i]
                  wick == fig.segments[i]
              IN  /\ bar.x = i - 1
                  /\ bar.bottom <= row.open /\ bar.bottom <= row.close
                  /\ bar.top >= row.open /\ bar.top >= row.close
                  /\ { bar.bottom, bar.top } = { row.open, row.close }
                  /\ (bar.color = "#00AA00") <=> (row.close >= row.open)
                  /\ (bar.color = "#FF0000") <=> (row.close < row.open)
                  /\ wick.x0 = i - 1 /\ wick.x1 = i - 1
                  /\ { wick.y0, wick.y1 } = { row.low, row.high }
                  /\ Len(fig.volume_bars) > 0 =>
                        /\ fig.volume_bars[i].color = bar.color
                        /\ fig.volume_bars[i].x = i - 1

\* two rows, the second with close = open, drawn with volume bars
C8_Witness ==
    /\ Rendered("CandlestickChart")
    /\ Len(chart.data) = 2
    /\ chart.data[2].close = chart.data[2].open
    /\ chart.data[1].close < chart.data[1].open
    /\ Len(fig.volume_bars) = 2
    /\ fig.bars[2].color = "#00AA00"
    /\ fig.bars[2].x = 1

----------------------------------------------------------------------------
(* Chart groups *)

\* HtmlEngine._render_chart(chart, as_string=False): the figure of one chart
_render_chart_figure(c) ==
    IF c.type \notin DOMAIN renderers THEN Failed(c.type, "Unknown chart type")
    ELSE CASE renderers[c.type] = "_render_bar_chart" -> _render_bar_chart(c)
           [] renderers[c.type] = "_render_line_chart" -> _render_line_chart(c)
           [] renderers[c.type] = "_render_combo_chart" -> _render_combo_chart(c)
           [] renderers[c.type] = "_render_candlestick_chart" ->
                 _render_candlestick_chart(c)

\* HtmlEngine._render_chart_group, the first loop: the figures of the members in
\* order, each with an x range object of its own (object i for the i-th figure),
\* up to the first member that fails
RECURSIVE group_figures(_, _, _)
group_figures(cs, i, charts) ==
    IF i > Len(cs) THEN [ err |-> NoError, charts |-> charts ]
    ELSE LET f == _render_chart_figure(cs[i])
         IN  IF f.err # NoError THEN [ err |-> f.err, charts |-> charts ]
             ELSE group_figures(cs, i + 1,
                      Append(charts, [ f EXCEPT !.x_range = i ] @@ [ member |-> i ]))

\* the second loop sharing the range from the third figure on only
share_x_range_late(charts) ==
    [ i \in 1 .. Len(charts) |->
        IF i > 2 THEN [ charts[i] EXCEPT !.x_range = charts[1].x_range ]
        ELSE charts[i] ]

\* HtmlEngine._render_chart_group, the second loop:
\* for chart in charts[1:]: chart.x_range = charts[0].x_range
share_x_range(charts) ==
    [ i \in 1 .. Len(charts) |->
        IF i > 1 THEN [ charts[i] EXCEPT !.x_range = charts[1].x_range ]
        ELSE charts[i] ]

\* HtmlEngine._render_chart_group on a group with members: the figures and the
\* range objects they refer to (ranges: object -> start of the range)
render_chart_group(group) ==
    LET made == group_figures(group.charts, 1, <<>>)
    IN  IF made.err # NoError
        THEN [ type |-> "group", err |-> made.err, charts |-> <<>>,
               ranges |-> << >>, zoomed |-> 0 ]
        ELSE [ type |-> "group", err |-> NoError,
               charts |-> share_x_range(made.charts),
               ranges |-> [ i \in 1 .. Len(made.charts) |-> 0 ],
               zoomed |-> 0 ]

PlainSeries == DataSeries(None, <<1, 2>>, <<1, 2>>, None, TRUE, FALSE)

TitledSeries == DataSeries("A", <<1, 2>>, <<1, 1>>, None, TRUE, FALSE)

UndrawnSeries == DataSeries("A", <<1, 2>>, <<1, 1>>, None, FALSE, FALSE)

\* member charts: charts that render, a line chart the assertion refuses and a
\* chart of a class without a renderer
GroupMembers ==
    { LineChart(<<PlainSeries>>, TRUE),
      LineChart(<<UndrawnSeries>>, TRUE),
      BarChart(<<TitledSeries, TitledSeries>>, "ignored"),
      ComboChart(<<DataSeries("A", <<Int1, Int2>>, <<1, 1>>, None, TRUE, FALSE)>>,
                 <<DataSeries("A", <<Int2, Int1>>, <<1, 1>>, None, TRUE, FALSE)>>,
                 "ignored"),
      CandlestickChart(<<Row(1, 2, 0, 2, 0)>>, FALSE),
      [ type |-> "MyChart" ] }

ChartGroup(charts) == [ type |-> "ChartGroup", charts |-> charts ]

InitGroup ==
    /\ IdleRest
    /\ \E n \in 1 .. MaxMembers : \E cs \in [ 1 .. n -> GroupMembers ] :
          chart = ChartGroup(cs)
    /\ fig = NoChart

RenderChartGroup ==
    /\ chart.type = "ChartGroup"
    /\ fig = NoChart
    /\ fig' = render_chart_group(chart)
    /\ UNCHANGED chart
    /\ UNCHANGED <<treeVars, regVars>>

\* the viewer pans member i of a rendered group: the start of the range object
\* that the member's figure refers to becomes v
Zoom(i, v) ==
    /\ fig.type = "group"
    /\ fig.err = NoError
    /\ fig.zoomed = 0
    /\ i \in 1 .. Len(fig.charts)
    /\ fig' = [ fig EXCEPT !.ranges[fig.charts[i].x_range] = v, !.zoomed = v ]
    /\ UNCHANGED chart
    /\ UNCHANGED <<treeVars, regVars>>

NextGroup ==
    \/ RenderChartGroup
    \/ \E i \in 1 .. MaxMembers : \E v \in 1 .. MaxZoom : Zoom(i, v)

SpecGroup == InitGroup /\ [][NextGroup]_vars

\* C9: after a ChartGroup is rendered, every member has been rendered exactly once
\* as a figure, in declaration order, and every figure's x range is the one object
\* the first figure was made with, so that a change of the range through any
\* member shows in all of them.
C9_SharedRange ==
    (fig.type = "group" /\ fig.err = NoError) =>
        /\ Len(fig.charts) = Len(chart.charts)
        /\ \A i \in 1 .. Len(fig.charts) :
              /\ fig.charts[i].member = i
              /\ fig.charts[i].of = chart.charts[i].type
              /\ fig.charts[i].x_range = 1
              /\ fig.ranges[fig.charts[i].x_range] = fig.zoomed

\* a group of three members was rendered and panned through its last member
C9_Witness ==
    /\ fig.type = "group"
    /\ fig.err = NoError
    /\ Len(fig.charts) = 3
    /\ fig.zoomed = 2
    /\ fig.ranges[fig.charts[1].x_range] = 2

----------------------------------------------------------------------------
(* Tables *)

\* what Table.column_style may hold: nothing, a callback, a dictionary, and values
\* that are neither: a string, a list with members, and the empty string
ColumnStyles == { None, "callable", "dict", "str", "list", "empty" }

\* bool(column_style)
truthy(column_style) == column_style \notin { None, "empty" }

\* callable(column_style)
callable(column_style) == column_style = "callable"

\* isinstance(column_style, dict)
is_dict(column_style) == column_style = "dict"

\* the dtype of a column of the data frame
Dtypes == { "datetime64", "float", "int", "object" }

Table(columns, title, index, header, column_style, interactive) ==
    [ type |-> "Table", columns |-> columns, title |-> title, index |-> index,
      header |-> header, column_style |-> column_style, interactive |-> interactive ]

NoTable(path, e) ==
    [ type |-> "table", err |-> e, path |-> path, markup |-> FALSE,
      columns |-> <<>>, styled |-> FALSE, titled |-> FALSE,
      header |-> FALSE, index |-> FALSE ]

\* HtmlEngine._render_interactive_table: one column descriptor for each column, in
\* the order of the data frame
column_type(dtype) ==
    CASE dtype = "datetime64" -> "date"
      [] dtype = "float" -> "numeric"
      [] dtype = "int" -> "numeric"
      [] OTHER -> "text"

_render_interactive_table(obj) ==
    [ type |-> "table", err |-> NoError, path |-> "interactive", markup |-> TRUE,
      columns |-> [ i \in 1 .. Len(obj.columns) |-> column_type(obj.columns[i]) ],
      styled |-> FALSE,
      titled |-> obj.title \notin { None, "" },
      header |-> TRUE, index |-> FALSE ]

\* HtmlEngine._render_html_table
_render_html_table(obj) ==
    IF truthy(obj.column_style) /\ ~callable(obj.column_style)
         /\ ~is_dict(obj.column_style)
    THEN NoTable("static", "Column style should be a callback or a dictionary")
    ELSE [ type |-> "table", err |-> NoError, path |-> "static", markup |-> TRUE,
           columns |-> <<>>,
           styled |-> truthy(obj.column_style),
           titled |-> obj.title \notin { None, "" },
           header |-> obj.header, index |-> obj.index ]

\* HtmlEngine._render_table
_render_table_markup(obj) ==
    IF obj.interactive THEN _render_interactive_table(obj)
    ELSE _render_html_table(obj)

InitTable ==
    /\ IdleRest
    /\ \E n \in 0 .. MaxColumns : \E cols \in [ 1 .. n -> Dtypes ] :
       \E t \in Titles : \E ix, hd, ia \in BOOLEAN : \E cs \in ColumnStyles :
          chart = Table(cols, t, ix, hd, cs, ia)
    /\ fig = NoChart

RenderTable ==
    /\ chart.type = "Table"
    /\ fig = NoChart
    /\ fig' = _render_table_markup(chart)
    /\ UNCHANGED chart
    /\ UNCHANGED <<treeVars, regVars>>

NextTable == RenderTable

SpecTable == InitTable /\ [][NextTable]_vars

\* C14: rendering a Table whose column_style is neither callable nor a mapping
\* fails at table-render time on the interactive and on the static path, and no
\* table markup is produced; stated for the values that are not empty.
C14_InvalidColumnStyleRaises ==
    (fig.type = "table" /\ chart.column_style \in { "str", "list" }) =>
        fig.err # NoError /\ ~fig.markup

====
